---- MODULE Spec2Model ----
(***************************************************************************)
(* CliniCord: the /depression questionnaire command of clinicare.py on top *)
(* of the wait_for extension and the Listener of the vendored interactions *)
(* library.                                                                *)
(*                                                                         *)
(* One session is one run of the coroutine `depression`.  A step of the    *)
(* model is one step of the asyncio event loop: a coroutine runs from one  *)
(* await to the next, the gateway dispatches one component interaction, or *)
(* time passes.                                                            *)
(***************************************************************************)
EXTENDS Integers, Sequences, FiniteSets, TLC

(* ---------------- program constants ---------------- *)

\* len(questions), clinicare.py 12-34
NumQuestions == 21

\* SelectOption values "0".."3", clinicare.py 50-57
MaxWeight == 3

\* wait_for_component(..., timeout=60), clinicare.py 68
timeout == 60

(* ---------------- bounds of the model ---------------- *)

\* sessions (runs of the command) that can exist
MaxSessions == 2

\* Discord users
NumUsers == 2

\* component interactions that no waiting session accepts
MaxNoise == 2

\* component interactions dispatched while several sessions run
MaxConcInteractions == 2

\* length of one step of the clock
TickLen == 30

\* the ghost clock `waited` stops counting here
MaxWaited == 90

\* responses the owner gives while an endless stream of other events arrives
MaxLiveInteractions == 2

\* events dispatched under the name a wait_for(name) call listens to
MaxCallEvents == 3

\* the values those events carry are 1..MaxCallValue
MaxCallValue == 2

\* futures that Listener.add hands out
MaxFuts == 3

\* registrations of handler coroutines
MaxRegs == 3

\* the positional argument of a dispatched event is one of 1..MaxArg
MaxArg == 2

\* the keyword names of a dispatched event are 1..NumKeys
NumKeys == 2

\* futures and registrations where both are followed through a dispatch
MaxFrameFuts == 2
MaxFrameRegs == 1

\* the most negative score handed to the result chain on its own
MaxNegScore == 3

Sessions == 1..MaxSessions

Users == 1..NumUsers

Weights == 0..MaxWeight

\* custom_id of a component that is no questionnaire menu (str(i) is modelled by i)
OtherId == NumQuestions

\* the value of `res` before the first event
NoRes == [author |-> 0, custom_id |-> OtherId, value |-> 0]

Tiers == {"Normal", "Mild", "Borderline", "Moderate", "Severe", "Extreme"}

VARIABLES
    client,        \* a Client in _ready: its settings and how far the preparation got
    sync,          \* a Client in __sync: the commands of the API and of the bot
    missed,        \* per session: a response its check accepts was dispatched while the
                   \* call had no pending future and the question is still open (ghost)
    listener,      \* a Listener with several event names, handlers and futures
    call,          \* one wait_for(name) call on another event name, with no check
    env,           \* what the environment will do: invocations, interactions
    pc,            \* per session: where the coroutine is suspended
    owner,         \* per session: ctx.author.id
    i,             \* per session: the loop index of `for i, question in enumerate(questions)`
    score,         \* per session: the local `score`
    res,           \* per session: the tuple the last resolved future carried
    elapsed,       \* per session: time since the running asyncio.wait_for began
    waited,        \* per session: time since the pending question was presented (ghost)
    extra_events,  \* Listener.extra_events["on_component"]: the pending futures, by session
    dispatched,    \* number of on_component events dispatched so far (ghost)
    noise,         \* number of dispatched events that no waiting session accepts (ghost)
    sent,          \* per session: indices of the menus sent by ctx.send (ghost)
    deleted,       \* per session: indices of the menus removed by ctx.delete (ghost)
    accepted,      \* per session: number of responses the loop has accepted (ghost)
    weights,       \* per session: sum of the weights of the accepted responses (ghost)
    notices,       \* per session: number of "You took too long" notices sent (ghost)
    results,       \* per session: the tiers of the result messages sent (ghost)
    lastIgnored    \* per session: why the check last failed on the pending question (ghost)

vars == <<client, sync, missed, listener, call, env, pc, owner, i, score, res, elapsed, waited, extra_events, dispatched,
          noise, sent, deleted, accepted, weights, notices, results, lastIgnored>>

(* ---------------- helpers ---------------- *)

Range(s) == {s[k] : k \in 1..Len(s)}

\* list.remove(x): drops the first occurrence, ValueError suppressed when absent
RECURSIVE Remove(_, _)
Remove(s, x) ==
    IF s = <<>> THEN <<>>
    ELSE IF Head(s) = x THEN Tail(s)
    ELSE <<Head(s)>> \o Remove(Tail(s), x)

\* the menus of a session that are on display: sent and not deleted
Shown(s) == Len(sent[s]) - Len(deleted[s])

Started == {s \in Sessions : pc[s] # "idle"}

(* ---------------- clinicare.py ---------------- *)

\* mutant: the check forgets to compare the author
checkAnyAuthor(s, r) == r.custom_id = i[s]

\* depression.check, clinicare.py 63-65
check(s, r) == r.author = owner[s] /\ r.custom_id = i[s]

\* mutant: the second range starts one too early (`score >= 10`)
branchOverlap(k, sc) ==
    CASE k = 1 -> sc <= 10
      [] k = 2 -> sc >= 10 /\ sc <= 16
      [] k = 3 -> sc >= 17 /\ sc <= 20
      [] k = 4 -> sc >= 21 /\ sc <= 30
      [] k = 5 -> sc >= 31 /\ sc <= 40
      [] k = 6 -> sc > 40

\* the conditions of the six branches as written, clinicare.py 79, 86, 93, 100, 107, 114
branch(k, sc) ==
    CASE k = 1 -> sc <= 10
      [] k = 2 -> sc >= 11 /\ sc <= 16
      [] k = 3 -> sc >= 17 /\ sc <= 20
      [] k = 4 -> sc >= 21 /\ sc <= 30
      [] k = 5 -> sc >= 31 /\ sc <= 40
      [] k = 6 -> sc > 40

\* mutant: the chain with the first two tests off by one (`score < 10`, `score <= 17`)
classifyShifted(sc) ==
    IF sc < 10 THEN "Normal"
    ELSE IF sc <= 17 THEN "Mild"
    ELSE IF branch(3, sc) THEN "Borderline"
    ELSE IF branch(4, sc) THEN "Moderate"
    ELSE IF branch(5, sc) THEN "Severe"
    ELSE IF branch(6, sc) THEN "Extreme"
    ELSE "none"

\* the score-to-tier chain: the message of the first branch whose condition
\* holds, none when no condition holds, clinicare.py 79-119
classify(sc) ==
    IF branch(1, sc) THEN "Normal"
    ELSE IF branch(2, sc) THEN "Mild"
    ELSE IF branch(3, sc) THEN "Borderline"
    ELSE IF branch(4, sc) THEN "Moderate"
    ELSE IF branch(5, sc) THEN "Severe"
    ELSE IF branch(6, sc) THEN "Extreme"
    ELSE "none"

(* ---------------- wait_for extension ---------------- *)

\* mutant: _check returns after the custom_ids test and never calls check
_checkNoCall(s, r) == r.custom_id \in {i[s]}

\* wait_for_component._check with custom_ids = [menu.custom_id], wait_for.py 128-135
_check(s, r) ==
    IF r.custom_id \notin {i[s]} THEN FALSE
    ELSE check(s, r)

\* mutant: the loop ends whatever the check returned
checkedAlways(s, r) == TRUE

\* wait_for: `if check: checked = check(*res) ... if checked: break`, wait_for.py 47-52
checked(s, r) == _check(s, r)

\* the two functions a bot may call as wait_for: the extension's (installed by
\* setup, wait_for.py 165-167) and Client.wait_for
CallKinds == {"ext", "client"}

\* timeout=None (written 0) or a number of seconds
CallTimeouts == {0, timeout}

CallValues == 1..MaxCallValue

\* no wait_for(name) call was made: kind and tmo are the function called and its
\* timeout, fut is whether a future of the call is in extra_events[name], res is
\* the tuple the last future carried, ret the value returned; n and first count
\* the events dispatched under name since the call and keep the first (ghost)
NoCall ==
    [kind |-> "none", tmo |-> 0, pc |-> "idle", fut |-> FALSE, res |-> 0, ret |-> 0,
     elapsed |-> 0, n |-> 0, first |-> 0]

\* event names of the Listener
Names == {"on_a", "on_b"}

FutIds == 1..MaxFuts

\* the handler coroutines that can be registered
Handlers == {"h0", "h1", "h2"}

Args == 1..MaxArg

Keys == 1..NumKeys

\* a future that Listener.add has not created yet
NoFut == [name |-> "none", state |-> "none", result |-> 0, sets |-> 0]

\* Listener.__init__, dispatch.py 22-25: no handlers, no futures. mf and mr are
\* the numbers of futures and registrations the environment will ask for; tasks
\* are the tasks the last dispatch created, last is the last operation, invalid
\* is whether set_result was called on a future that was done (ghost)
NoListener(mf, mr) ==
    [cap |-> [futs |-> mf, regs |-> mr],
     events |-> [n \in Names |-> <<>>],
     extra_events |-> [n \in Names |-> <<>>],
     fut |-> [f \in FutIds |-> NoFut],
     tasks |-> <<>>,
     last |-> [op |-> "init", name |-> "none", args |-> 0, kwargs |-> <<>>],
     invalid |-> FALSE]

\* the privileged intents a bot can ask for, and Intents.DEFAULT
Intents == {"GUILD_PRESENCES", "GUILD_MEMBERS", "GUILD_MESSAGES"}
DefaultIntents == {"GUILD_MESSAGES"}

\* what the application flags can authorise (a flag or its _LIMITED form)
Flags == {"GATEWAY_PRESENCE", "GATEWAY_GUILD_MEMBERS", "GATEWAY_MESSAGE_CONTENT"}

\* the steps of the preparation in _ready, bot.py 441-470
Steps == {"intents", "resolve", "sync", "get_all", "autocomplete"}

\* a Client before _ready: automate_sync is `not disable_sync` (bot.py 140-145),
\* intents what the bot asked for, flags the flags of the application (a set
\* inside a tuple, or <<>> for None); pc is where _ready is, done the steps that
\* have completed, raised the kind of exception a step of the preparation
\* raised, pending whether it still propagates, logged whether log.exception
\* ran, ready the local `ready`, logins the calls of _login
ClientWith(a, n, f) ==
    [automate_sync |-> a, intents |-> n, flags |-> f,
     pc |-> "idle", done |-> <<>>, raised |-> "none", pending |-> FALSE,
     logged |-> FALSE, ready |-> FALSE, logins |-> 0]

\* no Client is started
NoClient == ClientWith(TRUE, DefaultIntents, <<>>)

\* the names of application commands, in the order lists are written in
CmdNames == <<"a", "b">>

\* the guilds, in the order _get_all_guilds returns them
Guilds == <<"g1", "g2">>

\* "global", or the guild of a guild-scoped command set
Scopes == {"global"} \cup {Guilds[k] : k \in 1..Len(Guilds)}

\* a set of commands as __sync holds it, bot.py 673 and 700
NoSet == [commands |-> <<>>, clean |-> TRUE]

\* no __sync is running. coros are the registered command coroutines (name and
\* the guilds of _command_data, <<>> for a global command); status says for
\* every guild whether the bot is in it and may read its commands; api are the
\* commands the API holds (fresh: equal to the data of the coroutine of that
\* name); guild_ids, sets, check are _guild_ids, __global_commands with
\* __guild_commands, and __check_global_commands with __check_guild_commands;
\* blocked is __blocked_guilds; dirty are the sets whose clean became False in
\* this run, writes the overwrite calls per set and was the commands of the API
\* at the call (ghosts); k is how far the writing of the sets has got
NoSync ==
    [pc |-> "idle", coros |-> <<>>,
     status |-> [g \in Scopes \ {"global"} |-> "absent"],
     api |-> [x \in Scopes |-> <<>>],
     was |-> [x \in Scopes |-> <<>>], k |-> 1,
     guild_ids |-> <<>>, blocked |-> {},
     sets |-> [x \in Scopes |-> NoSet],
     check |-> [x \in Scopes |-> <<>>],
     dirty |-> {}, writes |-> [x \in Scopes |-> 0], raised |-> FALSE]

(* ---------------- initial state ---------------- *)

InitSessions ==
    /\ missed = [s \in Sessions |-> FALSE]
    /\ call = NoCall
    /\ pc = [s \in Sessions |-> "idle"]
    /\ owner = [s \in Sessions |-> 0]
    /\ i = [s \in Sessions |-> 0]
    /\ score = [s \in Sessions |-> 0]
    /\ res = [s \in Sessions |-> NoRes]
    /\ elapsed = [s \in Sessions |-> 0]
    /\ waited = [s \in Sessions |-> 0]
    /\ extra_events = <<>>
    /\ dispatched = 0
    /\ noise = 0
    /\ sent = [s \in Sessions |-> <<>>]
    /\ deleted = [s \in Sessions |-> <<>>]
    /\ accepted = [s \in Sessions |-> 0]
    /\ weights = [s \in Sessions |-> 0]
    /\ notices = [s \in Sessions |-> 0]
    /\ results = [s \in Sessions |-> <<>>]
    /\ lastIgnored = [s \in Sessions |-> "none"]

\* one user runs the command once and can answer every question
Init ==
    /\ sync = NoSync
    /\ client = NoClient
    /\ listener = NoListener(0, 0)
    /\ env = [invocations |-> 1, interactions |-> NumQuestions + MaxNoise]
    /\ InitSessions

\* the command is run several times, by the same or by different users
InitConc ==
    /\ sync = NoSync
    /\ client = NoClient
    /\ listener = NoListener(0, 0)
    /\ env = [invocations |-> MaxSessions, interactions |-> MaxConcInteractions]
    /\ InitSessions

(* ---------------- the command coroutine, clinicare.py ---------------- *)

\* a user invokes /depression: `score = 0` and the first loop iteration up to ctx.send
Invoke(u) ==
    LET s == Cardinality(Started) + 1 IN
    /\ Cardinality(Started) < env.invocations
    /\ s \in Sessions
    /\ pc' = [pc EXCEPT ![s] = "send"]
    /\ owner' = [owner EXCEPT ![s] = u]
    /\ i' = [i EXCEPT ![s] = 0]
    /\ score' = [score EXCEPT ![s] = 0]
    /\ UNCHANGED <<client, sync, missed, listener, call, env, res, elapsed, waited, extra_events, dispatched, noise, sent,
                   deleted, accepted, weights, notices, results, lastIgnored>>

\* `await ctx.send(embeds=embed, components=menu, ephemeral=True)`: menu i appears
Present(s) ==
    /\ pc[s] = "send"
    /\ sent' = [sent EXCEPT ![s] = Append(@, i[s])]
    /\ waited' = [waited EXCEPT ![s] = 0]
    /\ lastIgnored' = [lastIgnored EXCEPT ![s] = "none"]
    /\ pc' = [pc EXCEPT ![s] = "sent"]
    /\ missed' = [missed EXCEPT ![s] = FALSE]
    /\ UNCHANGED <<client, sync, listener, call, env, owner, i, score, res, elapsed, extra_events, dispatched, noise,
                   deleted, accepted, weights, notices, results>>

\* Listener.add: a new future is appended to extra_events[name], dispatch.py 82-94
add(futs, s) == Append(futs, s)

\* ctx.send returned; wait_for_component -> wait_for: add a future and await it
\* under asyncio.wait_for(fut, timeout)
StartWait(s) ==
    /\ pc[s] = "sent"
    /\ extra_events' = add(extra_events, s)
    /\ elapsed' = [elapsed EXCEPT ![s] = 0]
    /\ pc' = [pc EXCEPT ![s] = "waiting"]
    /\ UNCHANGED <<client, sync, missed, listener, call, env, owner, i, score, res, waited, dispatched, noise, sent, deleted,
                   accepted, weights, notices, results, lastIgnored>>

(* ---------------- Listener.dispatch, dispatch.py 47-62 ---------------- *)

\* the component ids a user can click: the menu of a running session, or some
\* other component
Clickable == {i[s] : s \in Started} \cup {OtherId}

\* the selected values of an interaction: a menu offers the four weights to its
\* owner; the value of any other interaction is read by nobody and is left 0
Values(u, c) ==
    IF \E s \in Started : owner[s] = u /\ i[s] = c THEN Weights ELSE {0}

\* the users that can invoke: one who owns a session already, or the next new one
Invokers == {u \in Users : \A w \in 1..(u - 1) : \E s \in Started : owner[s] = w}

\* event e comes while the call of session s has no pending future: the future
\* it awaited carries an event that its check rejects (or is still checking),
\* and the loop has not added the next future yet; e is one the check accepts
Unheard(s, e) ==
    /\ pc[s] = "resolved"
    /\ ~checked(s, res[s])
    /\ checked(s, e)

\* the gateway dispatches "on_component" with one ComponentContext: every pending
\* future gets the event as its result and the list is emptied.  A future of the
\* list is never done here: a timed out wait removes its future in the same step.
Dispatch(u, c, v) ==
    LET e == [author |-> u, custom_id |-> c, value |-> v]
        futs == Range(extra_events)
        heard == \E s \in futs : checked(s, e)
    IN
    /\ dispatched < env.interactions
    /\ heard \/ noise < MaxNoise
    /\ dispatched' = dispatched + 1
    /\ noise' = IF heard THEN noise ELSE noise + 1
    /\ res' = [s \in Sessions |-> IF s \in futs THEN e ELSE res[s]]
    /\ pc' = [s \in Sessions |-> IF s \in futs THEN "resolved" ELSE pc[s]]
    /\ elapsed' = [s \in Sessions |-> IF s \in futs THEN 0 ELSE elapsed[s]]
    /\ extra_events' = <<>>
    /\ missed' = [s \in Sessions |-> missed[s] \/ Unheard(s, e)]
    /\ UNCHANGED <<client, sync, listener, call, env, owner, i, score, waited, sent, deleted, accepted, weights,
                   notices, results, lastIgnored>>

(* ---------------- wait_for, wait_for.py 38-60 ---------------- *)

\* mutant: a rejected response makes the command send the menu again
ResumeResend(s) ==
    /\ pc[s] = "resolved"
    /\ pc' = [pc EXCEPT ![s] = IF checked(s, res[s]) THEN "delete" ELSE "send"]
    /\ UNCHANGED <<client, sync, missed, listener, call, env, owner, i, score, res, elapsed, waited, extra_events, dispatched,
                   noise, sent, deleted, accepted, weights, notices, results, lastIgnored>>

\* the awaited future has a result: the check runs (clinicare's check never
\* suspends); a truthy check ends the loop and wait_for_component returns res, so
\* the coroutine goes on to `await ctx.delete()`; otherwise the loop adds a new
\* future and starts a new asyncio.wait_for with the whole timeout (the rejected
\* res is never read again and is forgotten here)
Resume(s) ==
    /\ pc[s] = "resolved"
    /\ IF checked(s, res[s])
       THEN /\ pc' = [pc EXCEPT ![s] = "delete"]
            /\ UNCHANGED <<extra_events, elapsed, res, lastIgnored>>
       ELSE /\ extra_events' = add(extra_events, s)
            /\ elapsed' = [elapsed EXCEPT ![s] = 0]
            /\ pc' = [pc EXCEPT ![s] = "waiting"]
            /\ lastIgnored' = [lastIgnored EXCEPT ![s] =
                                 IF res[s].custom_id # i[s] THEN "custom_id" ELSE "author"]
            /\ res' = [res EXCEPT ![s] = NoRes]
    /\ UNCHANGED <<client, sync, missed, listener, call, env, owner, i, score, waited, dispatched, noise, sent, deleted,
                   accepted, weights, notices, results>>

\* asyncio.wait_for times out: the future is removed from extra_events and
\* TimeoutError reaches clinicare.py 73, which goes on to `await ctx.delete()`
Timeout(s) ==
    /\ pc[s] = "waiting"
    /\ elapsed[s] >= timeout
    /\ extra_events' = Remove(extra_events, s)
    /\ elapsed' = [elapsed EXCEPT ![s] = 0]
    /\ pc' = [pc EXCEPT ![s] = "timedout"]
    /\ UNCHANGED <<client, sync, missed, listener, call, env, owner, i, score, res, waited, dispatched, noise, sent,
                   deleted, accepted, weights, notices, results, lastIgnored>>

\* time passes for every running asyncio.wait_for; none is left behind its timeout
Tick ==
    LET waiting == {s \in Sessions : pc[s] = "waiting"} IN
    /\ waiting # {}
    /\ \A s \in waiting : elapsed[s] < timeout
    /\ elapsed' = [s \in Sessions |-> IF s \in waiting THEN elapsed[s] + TickLen ELSE elapsed[s]]
    /\ waited' = [s \in Sessions |->
                     IF s \in waiting /\ waited[s] < MaxWaited
                     THEN waited[s] + TickLen ELSE waited[s]]
    /\ UNCHANGED <<client, sync, missed, listener, call, env, pc, owner, i, score, res, extra_events, dispatched, noise, sent,
                   deleted, accepted, weights, notices, results, lastIgnored>>

(* ---------------- the rest of the loop body, clinicare.py 69-76 ---------------- *)

\* mutant: ctx.delete removes the first message of the command
FirstSent(s) == sent[s][1]

\* the menu that ctx.delete removes: the message of the last ctx.send
LastSent(s) == sent[s][Len(sent[s])]

\* mutant: `score = int(res.data.values[0])`
SetScore(sc, r) == r.value

\* mutant: the choices are counted 1..4 instead of 0..3
AddScorePlusOne(sc, r) == sc + r.value + 1

\* `score += int(res.data.values[0])`, clinicare.py 71
AddScore(sc, r) == sc + r.value

\* mutant: the menu of an answered question is left on display
DeleteKeep(s) ==
    /\ pc[s] = "delete"
    /\ score' = [score EXCEPT ![s] = AddScore(@, res[s])]
    /\ accepted' = [accepted EXCEPT ![s] = @ + 1]
    /\ weights' = [weights EXCEPT ![s] = @ + res[s].value]
    /\ IF i[s] + 1 < NumQuestions
       THEN /\ i' = [i EXCEPT ![s] = @ + 1]
            /\ pc' = [pc EXCEPT ![s] = "send"]
       ELSE /\ i' = i
            /\ pc' = [pc EXCEPT ![s] = "classify"]
    /\ res' = [res EXCEPT ![s] = NoRes]
    /\ UNCHANGED <<client, sync, missed, listener, call, env, owner, elapsed, waited, extra_events, dispatched, noise,
                   sent, deleted, notices, results, lastIgnored>>

\* mutant: the loop leaves for the result one question early
DeleteEarlyExit(s) ==
    /\ pc[s] = "delete"
    /\ deleted' = [deleted EXCEPT ![s] = Append(@, sent[s][Len(sent[s])])]
    /\ score' = [score EXCEPT ![s] = @ + res[s].value]
    /\ accepted' = [accepted EXCEPT ![s] = @ + 1]
    /\ weights' = [weights EXCEPT ![s] = @ + res[s].value]
    /\ IF i[s] + 1 < NumQuestions - 1
       THEN /\ i' = [i EXCEPT ![s] = @ + 1]
            /\ pc' = [pc EXCEPT ![s] = "send"]
       ELSE /\ i' = i
            /\ pc' = [pc EXCEPT ![s] = "classify"]
    /\ res' = [res EXCEPT ![s] = NoRes]
    /\ UNCHANGED <<client, sync, missed, listener, call, env, owner, elapsed, waited, extra_events, dispatched, noise,
                   sent, notices, results, lastIgnored>>

\* `await ctx.delete()` returned after an accepted response: the weight is added
\* and the loop goes to the next question, or leaves for the result after the last
\* (res is not read after line 71 and is forgotten here)
Delete(s) ==
    /\ pc[s] = "delete"
    /\ deleted' = [deleted EXCEPT ![s] = Append(@, LastSent(s))]
    /\ score' = [score EXCEPT ![s] = AddScore(@, res[s])]
    /\ accepted' = [accepted EXCEPT ![s] = @ + 1]
    /\ weights' = [weights EXCEPT ![s] = @ + res[s].value]
    /\ IF i[s] + 1 < NumQuestions
       THEN /\ i' = [i EXCEPT ![s] = @ + 1]
            /\ pc' = [pc EXCEPT ![s] = "send"]
       ELSE /\ i' = i
            /\ pc' = [pc EXCEPT ![s] = "classify"]
    /\ res' = [res EXCEPT ![s] = NoRes]
    /\ UNCHANGED <<client, sync, missed, listener, call, env, owner, elapsed, waited, extra_events, dispatched, noise,
                   sent, notices, results, lastIgnored>>

\* mutant: the timeout handler sends the notice without deleting the menu
TimeoutKeep(s) ==
    /\ pc[s] = "timedout"
    /\ pc' = [pc EXCEPT ![s] = "notify"]
    /\ UNCHANGED <<client, sync, missed, listener, call, env, owner, i, score, res, elapsed, waited, extra_events, dispatched,
                   noise, sent, deleted, accepted, weights, notices, results, lastIgnored>>

\* `await ctx.delete()` of the timeout handler, clinicare.py 74
TimeoutDelete(s) ==
    /\ pc[s] = "timedout"
    /\ deleted' = [deleted EXCEPT ![s] = Append(@, LastSent(s))]
    /\ pc' = [pc EXCEPT ![s] = "notify"]
    /\ UNCHANGED <<client, sync, missed, listener, call, env, owner, i, score, res, elapsed, waited, extra_events, dispatched,
                   noise, sent, accepted, weights, notices, results, lastIgnored>>

\* mutant: the timeout handler has no `return` and the loop goes on
NotifyNoReturn(s) ==
    /\ pc[s] = "notify"
    /\ notices' = [notices EXCEPT ![s] = @ + 1]
    /\ IF i[s] + 1 < NumQuestions
       THEN /\ i' = [i EXCEPT ![s] = @ + 1]
            /\ pc' = [pc EXCEPT ![s] = "send"]
       ELSE /\ i' = i
            /\ pc' = [pc EXCEPT ![s] = "classify"]
    /\ UNCHANGED <<client, sync, missed, listener, call, env, owner, score, res, elapsed, waited, extra_events, dispatched,
                   noise, sent, deleted, accepted, weights, results, lastIgnored>>

\* `await ctx.send("You took too long to respond! ...")` and `return`, clinicare.py 75-76
Notify(s) ==
    /\ pc[s] = "notify"
    /\ notices' = [notices EXCEPT ![s] = @ + 1]
    /\ pc' = [pc EXCEPT ![s] = "aborted"]
    /\ UNCHANGED <<client, sync, missed, listener, call, env, owner, i, score, res, elapsed, waited, extra_events, dispatched,
                   noise, sent, deleted, accepted, weights, results, lastIgnored>>

\* the if/elif chain sends the message of the first branch that matches, clinicare.py 79-119
Classify(s) ==
    /\ pc[s] = "classify"
    /\ results' = [results EXCEPT ![s] =
                      IF classify(score[s]) \in Tiers THEN Append(@, classify(score[s])) ELSE @]
    /\ pc' = [pc EXCEPT ![s] = "done"]
    /\ UNCHANGED <<client, sync, missed, listener, call, env, owner, i, score, res, elapsed, waited, extra_events, dispatched,
                   noise, sent, deleted, accepted, weights, notices, lastIgnored>>

(* ---------------- specifications ---------------- *)

Next ==
    \/ \E u \in Invokers : Invoke(u)
    \/ \E s \in Sessions : Present(s)
    \/ \E s \in Sessions : StartWait(s)
    \/ \E u \in Users, c \in Clickable :
          \E v \in Values(u, c) : Dispatch(u, c, v)
    \/ \E s \in Sessions : Resume(s)
    \/ \E s \in Sessions : Timeout(s)
    \/ Tick
    \/ \E s \in Sessions : Delete(s)
    \/ \E s \in Sessions : TimeoutDelete(s)
    \/ \E s \in Sessions : Notify(s)
    \/ \E s \in Sessions : Classify(s)

\* one session
Spec == Init /\ [][Next]_vars

\* the steps of sessions that accept at most MaxConcInteractions responses: none
\* of them gets through its questions, so the result step is left out
NextConc ==
    \/ \E u \in Invokers : Invoke(u)
    \/ \E s \in Sessions : Present(s)
    \/ \E s \in Sessions : StartWait(s)
    \/ \E u \in Users, c \in Clickable :
          \E v \in Values(u, c) : Dispatch(u, c, v)
    \/ \E s \in Sessions : Resume(s)
    \/ \E s \in Sessions : Timeout(s)
    \/ Tick
    \/ \E s \in Sessions : Delete(s)
    \/ \E s \in Sessions : TimeoutDelete(s)
    \/ \E s \in Sessions : Notify(s)

\* several sessions at once
SpecConc == InitConc /\ [][NextConc]_vars

(* ---------------- properties of a session ---------------- *)

\* the loop of the command is running: from the invocation to the result or the timeout
InProgress(s) == pc[s] \in {"send", "sent", "waiting", "resolved", "delete"}

\* C1: within one session the menus are sent in index order 0, 1, 2, ..., and
\* menu k is sent only when the responses to all of the menus 0..k-1 have been
\* accepted: the menu being sent is always the one numbered by the count of
\* accepted responses.
C1_SequentialQuestions ==
    [][\A s \in Sessions :
          sent'[s] # sent[s] =>
             /\ Len(sent[s]) = accepted[s]
             /\ sent'[s] = Append(sent[s], accepted[s])]_vars

\* C1 witness: the last menu has been sent after twenty accepted responses
C1_Witness ==
    \E s \in Sessions :
       pc[s] = "waiting" /\ Len(sent[s]) = NumQuestions /\ accepted[s] = NumQuestions - 1

\* C2: a response whose custom_id is not that of the pending menu changes neither
\* the position nor the score: whenever i, score or the count of accepted
\* responses changes, the response being consumed carries the custom_id of the
\* pending menu, and a session that was handed a response with another custom_id
\* goes back to waiting on the same question.
C2_OtherTokenIgnored ==
    [][\A s \in Sessions :
          /\ (i'[s] # i[s] \/ score'[s] # score[s] \/ accepted'[s] # accepted[s])
                => (pc[s] = "delete" /\ res[s].custom_id = i[s])
          /\ (pc[s] = "resolved" /\ res[s].custom_id # i[s] /\ pc'[s] # "resolved")
                => (pc'[s] = "waiting" /\ i'[s] = i[s] /\ score'[s] = score[s])]_vars

\* C2 witness: a session waits on a later question after responses with another
\* custom_id were rejected
C2_Witness ==
    \E s \in Sessions :
       /\ pc[s] = "waiting" /\ lastIgnored[s] = "custom_id"
       /\ noise >= 2 /\ accepted[s] >= 1 /\ score[s] = weights[s]

\* C3: a response of a user other than the owner is ignored and the pending
\* question stays outstanding: position and score change only on a response of
\* the owner; after such a response is rejected the session waits again with the
\* same menu on display; and a menu is taken down only after a response of the
\* owner to that menu was accepted or the wait timed out.
C3_OtherUserIgnored ==
    [][\A s \in Sessions :
          /\ (i'[s] # i[s] \/ score'[s] # score[s] \/ accepted'[s] # accepted[s])
                => (pc[s] = "delete" /\ res[s].author = owner[s])
          /\ (pc[s] = "resolved" /\ res[s].author # owner[s] /\ pc'[s] # "resolved")
                => /\ pc'[s] = "waiting"
                   /\ s \in Range(extra_events')
                   /\ sent'[s] = sent[s] /\ deleted'[s] = deleted[s]
                   /\ i'[s] = i[s] /\ score'[s] = score[s]
          /\ deleted'[s] # deleted[s]
                => \/ pc[s] = "timedout"
                   \/ (pc[s] = "delete" /\ res[s].author = owner[s]
                                        /\ res[s].custom_id = i[s])]_vars

\* C3 witness: a session waits with its menu on display after the response of
\* another user to a menu with the same custom_id was rejected
C3_Witness ==
    \E s \in Sessions :
       /\ pc[s] = "waiting" /\ lastIgnored[s] = "author"
       /\ Shown(s) = 1 /\ s \in Range(extra_events)

\* C4: each question has one deadline, 60 after its presentation: a session never
\* waits on a question for longer than that, and an ignored response does not
\* restart the window (the running wait is as old as the presentation).
C4_SingleDeadline ==
    \A s \in Sessions :
       pc[s] = "waiting" => (waited[s] <= timeout /\ elapsed[s] = waited[s])

\* C5: concurrent sessions are isolated: one dispatched response is accepted by
\* at most one session, and a response that one session accepts disturbs the wait
\* of no other session (its future stays pending, its deadline stays).
\* Whether a session accepts is decided when it resumes, by the same check on the
\* same i and owner that are evaluated here.
C5_SessionsIsolated ==
    [][LET taken == {s \in Sessions :
                        pc[s] = "waiting" /\ pc'[s] = "resolved" /\ checked(s, res'[s])}
       IN  /\ Cardinality(taken) <= 1
           /\ \A s \in taken : \A t \in Sessions \ {s} :
                 /\ pc'[t] = pc[t] /\ elapsed'[t] = elapsed[t]
                 /\ i'[t] = i[t] /\ score'[t] = score[t]]_vars

\* C6: the score is the sum of the weights of the accepted responses, each weight
\* in 0..3, so it lies in 0..63; and no step decreases it.
C6_ScoreIsSumOfWeights ==
    /\ [](\A s \in Sessions :
             /\ score[s] = weights[s]
             /\ 0 <= score[s] /\ score[s] <= MaxWeight * accepted[s] /\ score[s] <= 63)
    /\ [][\A s \in Sessions : score'[s] >= score[s]]_vars

\* C6 witness: every question answered with the heaviest choice
C6_Witness ==
    \E s \in Sessions : accepted[s] = NumQuestions /\ score[s] = 63

\* C7: a wait that times out ends the session aborted: from the timeout on no
\* result message is sent; when the notice is being sent the menu has been taken
\* down, and in the aborted session no menu is on display, exactly one retry
\* notice was sent, no result was sent and no future of the session is pending.
C7_TimeoutAborts ==
    \A s \in Sessions :
       /\ pc[s] \in {"timedout", "notify", "aborted"}
             => (results[s] = <<>> /\ s \notin Range(extra_events)
                 /\ Len(sent[s]) = accepted[s] + 1)
       /\ pc[s] = "timedout" => (Shown(s) = 1 /\ notices[s] = 0)
       /\ pc[s] = "notify" => (Shown(s) = 0 /\ notices[s] = 0)
       /\ pc[s] = "aborted" => (Shown(s) = 0 /\ notices[s] = 1)
       /\ notices[s] > 0 => pc[s] = "aborted"

\* C7 witness: the last question timed out after twenty answers with a score
\* that is never reported
C7_Witness ==
    \E s \in Sessions :
       /\ pc[s] = "aborted" /\ i[s] = NumQuestions - 1
       /\ score[s] > 0 /\ results[s] = <<>> /\ notices[s] = 1

\* C8 as stated: while the loop runs, exactly one menu is on display
C8_ExactlyOneActive ==
    \A s \in Sessions : InProgress(s) => Shown(s) = 1

\* C8 amended: while the loop runs at most one menu is on display: exactly one
\* from its presentation until its deletion, none before the first menu is sent
\* and between the deletion of a menu and the sending of the next.
C8_AtMostOneActive ==
    \A s \in Sessions :
       /\ Shown(s) \in {0, 1}
       /\ pc[s] \in {"sent", "waiting", "resolved", "delete"} => Shown(s) = 1
       /\ pc[s] = "send" => Shown(s) = 0

\* C8 witness: a menu is on display after the earlier ones were taken down
C8_Witness ==
    \E s \in Sessions : pc[s] = "waiting" /\ Shown(s) = 1 /\ Len(deleted[s]) >= 2

\* C9: the number of menus sent equals the number of accepted responses or
\* exceeds it by exactly one.
C9_PresentsVsAccepted ==
    \A s \in Sessions :
       Len(sent[s]) = accepted[s] \/ Len(sent[s]) = accepted[s] + 1

\* C9 witness: a timed out session has sent one menu more than it accepted responses
C9_Witness ==
    \E s \in Sessions :
       pc[s] = "aborted" /\ accepted[s] >= 2 /\ Len(sent[s]) = accepted[s] + 1

\* C10: every menu is deleted exactly once, after its response was accepted or
\* its wait timed out, and before anything else is sent: the deleted menus are
\* the sent ones in the same order, at most the last one still on display; a
\* finished session has deleted all of them; a deletion happens only after an
\* accepted response or a timeout; and a menu, a result or a notice is sent only
\* when every menu sent before has been deleted.
C10_RetractedOnce ==
    /\ [](\A s \in Sessions :
             /\ Len(deleted[s]) <= Len(sent[s])
             /\ Len(sent[s]) <= Len(deleted[s]) + 1
             /\ \A k \in 1..Len(deleted[s]) : deleted[s][k] = sent[s][k]
             /\ \A k, m \in 1..Len(deleted[s]) : k # m => deleted[s][k] # deleted[s][m]
             /\ pc[s] \in {"done", "aborted"} => deleted[s] = sent[s])
    /\ [][\A s \in Sessions :
             /\ deleted'[s] # deleted[s]
                   => /\ pc[s] \in {"delete", "timedout"}
                      /\ Len(deleted'[s]) = Len(deleted[s]) + 1
             /\ (sent'[s] # sent[s] \/ results'[s] # results[s] \/ notices'[s] # notices[s])
                   => deleted[s] = sent[s]]_vars

\* C10 witness: a session has finished with all of its menus deleted
C10_Witness ==
    \E s \in Sessions :
       pc[s] = "done" /\ Len(sent[s]) = NumQuestions /\ deleted[s] = sent[s]

(* ---------------- wait_for(name) with no check ---------------- *)

SessionVars ==
    <<missed, env, pc, owner, i, score, res, elapsed, waited, extra_events, dispatched, noise,
      sent, deleted, accepted, weights, notices, results, lastIgnored>>

\* `await bot.wait_for(name, timeout=t)`: the coroutine runs to its first await
\* with a future added to extra_events[name]
CallWaitFor(k, t) ==
    /\ call.pc = "idle"
    /\ call' = [call EXCEPT !.kind = k, !.tmo = t, !.pc = "waiting", !.fut = TRUE]
    /\ UNCHANGED <<client, sync, listener, SessionVars>>

\* Listener.dispatch(name, v): a pending future of the call gets the result (v,)
\* and extra_events[name] is emptied; with no pending future the event only
\* reaches the registered handlers
DispatchName(v) ==
    /\ call.pc # "idle"
    /\ call.n < MaxCallEvents
    /\ call' = [call EXCEPT !.n = @ + 1,
                            !.first = IF call.n = 0 THEN v ELSE @,
                            !.fut = FALSE,
                            !.res = IF call.fut THEN v ELSE @,
                            !.elapsed = IF call.fut THEN 0 ELSE @,
                            !.pc = IF call.fut THEN "resolved" ELSE @]
    /\ UNCHANGED <<client, sync, listener, SessionVars>>

\* the awaited future has a result and check is None. Client.wait_for:
\* `if not check: break`, then `return res[0]`. The extension's wait_for: the
\* only break is inside `if check:`, so the loop adds a new future and waits again
CallResume ==
    /\ call.pc = "resolved"
    /\ IF call.kind = "client"
       THEN call' = [call EXCEPT !.pc = "returned", !.ret = call.res]
       ELSE call' = [call EXCEPT !.pc = "waiting", !.fut = TRUE, !.elapsed = 0]
    /\ UNCHANGED <<client, sync, listener, SessionVars>>

\* time passes for the running asyncio.wait_for of the call
CallTick ==
    /\ call.pc = "waiting"
    /\ call.elapsed < timeout
    /\ call' = [call EXCEPT !.elapsed = @ + TickLen]
    /\ UNCHANGED <<client, sync, listener, SessionVars>>

\* asyncio.wait_for times out: the future is removed and TimeoutError is raised
CallTimeout ==
    /\ call.pc = "waiting"
    /\ call.tmo # 0
    /\ call.elapsed >= call.tmo
    /\ call' = [call EXCEPT !.pc = "raised", !.fut = FALSE]
    /\ UNCHANGED <<client, sync, listener, SessionVars>>

InitWait ==
    /\ sync = NoSync
    /\ client = NoClient
    /\ listener = NoListener(0, 0)
    /\ env = [invocations |-> 0, interactions |-> 0]
    /\ InitSessions

NextWait ==
    \/ \E k \in CallKinds, t \in CallTimeouts : CallWaitFor(k, t)
    \/ \E v \in CallValues : DispatchName(v)
    \/ CallResume
    \/ CallTick
    \/ CallTimeout

SpecWait == InitWait /\ [][NextWait]_vars

\* C20: wait_for(name) with no check waits for the event once: a call that still
\* waits, or that raised TimeoutError, has seen no event dispatched under name
\* since it was made, and a call that returned returned the value of the first
\* such event.
C20_ReturnsFirstEvent ==
    /\ call.pc \in {"waiting", "raised"} => call.n = 0
    /\ call.pc = "returned" => (call.n >= 1 /\ call.ret = call.first)

(* ---------------- the contract of wait_for_component ---------------- *)

\* C18: wait_for_component(components=menu, check=check) returns a context only
\* for an interaction whose custom_id is the menu's and for which check was
\* truthy, and it returns that very interaction; an interaction for which check
\* is falsy does not end the call, which waits again with a new pending future.
C18_ReturnsOnlyChecked ==
    [][\A s \in Sessions :
          /\ (pc[s] = "resolved" /\ pc'[s] = "delete")
                => /\ res[s].custom_id \in {i[s]}
                   /\ check(s, res[s])
                   /\ res'[s] = res[s]
          /\ (pc[s] = "resolved" /\ ~check(s, res[s]) /\ pc'[s] # "resolved")
                => /\ pc'[s] = "waiting"
                   /\ s \in Range(extra_events')
                   /\ accepted'[s] = accepted[s]]_vars

\* C18 witness: the call returned the owner's interaction after it had rejected
\* a click on the same menu by another user
C18_Witness ==
    \E s \in Sessions :
       /\ pc[s] = "delete" /\ lastIgnored[s] = "author"
       /\ res[s].author = owner[s] /\ res[s].custom_id = i[s] /\ i[s] >= 1

\* C19: a call returns a context only for an interaction dispatched within
\* `timeout` of the call: when no accepted interaction came in that time the
\* call raised TimeoutError and returns nothing. (A session leaves "waiting"
\* for "delete" only by an accepted interaction, and `waited` stands still from
\* the dispatch on.)
C19_NoReturnAfterTimeout ==
    \A s \in Sessions : pc[s] = "delete" => waited[s] <= timeout

\* C24: no matching response is lost: a call that waits on, or that ended in
\* TimeoutError, was sent no response that its check accepts since the question
\* was presented.
C24_NoMatchingLost ==
    \A s \in Sessions :
       pc[s] \in {"waiting", "timedout", "notify", "aborted"} => ~missed[s]

(* ---------------- an endless stream of events ---------------- *)

\* Listener.dispatch of an on_component event that no waiting session accepts,
\* as Dispatch but outside the counted events: there is no end to such events
DispatchOther(u, c) ==
    LET e == [author |-> u, custom_id |-> c, value |-> 0]
        futs == Range(extra_events)
    IN
    /\ futs # {}
    /\ \A s \in futs : ~checked(s, e)
    /\ res' = [s \in Sessions |-> IF s \in futs THEN e ELSE res[s]]
    /\ pc' = [s \in Sessions |-> IF s \in futs THEN "resolved" ELSE pc[s]]
    /\ elapsed' = [s \in Sessions |-> IF s \in futs THEN 0 ELSE elapsed[s]]
    /\ extra_events' = <<>>
    /\ missed' = [s \in Sessions |-> missed[s] \/ Unheard(s, e)]
    /\ UNCHANGED <<client, sync, listener, call, env, owner, i, score, waited, dispatched, noise, sent, deleted,
                   accepted, weights, notices, results, lastIgnored>>

\* a step of a command coroutine or of its timer: the event loop runs it as
\* soon as it can
SessionStep ==
    \E s \in Sessions :
       \/ Present(s) \/ StartWait(s) \/ Resume(s) \/ Timeout(s)
       \/ Delete(s) \/ TimeoutDelete(s) \/ Notify(s)

InitLive ==
    /\ sync = NoSync
    /\ client = NoClient
    /\ listener = NoListener(0, 0)
    /\ env = [invocations |-> 1, interactions |-> MaxLiveInteractions]
    /\ InitSessions

\* the steps of one session that gets at most MaxLiveInteractions answers (so it
\* never reaches the result) and any number of other events
NextLive ==
    \/ \E u \in Invokers : Invoke(u)
    \/ \E s \in Sessions : Present(s)
    \/ \E s \in Sessions : StartWait(s)
    \/ \E u \in Users, c \in Clickable :
          \E v \in Values(u, c) : Dispatch(u, c, v)
    \/ \E u \in Users, c \in Clickable : DispatchOther(u, c)
    \/ \E s \in Sessions : Resume(s)
    \/ \E s \in Sessions : Timeout(s)
    \/ Tick
    \/ \E s \in Sessions : Delete(s)
    \/ \E s \in Sessions : TimeoutDelete(s)
    \/ \E s \in Sessions : Notify(s)

\* fair scheduling: every coroutine that can run does run, every timer that is
\* due fires, and time passes; the events of the gateway are not constrained
SpecLive ==
    InitLive /\ [][NextLive]_vars /\ WF_vars(SessionStep) /\ WF_vars(Tick)

\* C16: every session that was started eventually ends, completed or aborted.
C16_SessionTerminates ==
    \A s \in Sessions : (pc[s] = "send") ~> (pc[s] \in {"done", "aborted"})

(* ---------------- failing surface operations ---------------- *)

\* an awaited ctx.send or ctx.delete raises (an HTTP error of the library): the
\* only handler of the command is `except asyncio.TimeoutError` around lines
\* 68-71, so the exception leaves the coroutine and the command ends there
SurfaceFails(s) ==
    /\ pc[s] \in {"send", "delete", "timedout", "notify", "classify"}
    /\ pc' = [pc EXCEPT ![s] = "crashed"]
    /\ UNCHANGED <<client, sync, missed, listener, call, env, owner, i, score, res, elapsed, waited, extra_events, dispatched,
                   noise, sent, deleted, accepted, weights, notices, results, lastIgnored>>

NextFail ==
    \/ Next
    \/ \E s \in Sessions : SurfaceFails(s)

\* one session on a surface whose operations can fail
SpecFail == Init /\ [][NextFail]_vars

\* C15: a failing ctx.send or ctx.delete is swallowed: the command never ends by
\* the exception, and a response that wait_for_component returned is always
\* consumed (its weight added), also when the deletion of its menu fails.
C15_FailuresSwallowed ==
    \A s \in Sessions :
       /\ pc[s] # "crashed"
       /\ pc[s] \notin {"resolved", "delete"} => res[s] = NoRes

(* ---------------- the result ---------------- *)

\* the scores handed to the result chain on its own: all that a session can
\* reach, and some negative ones that no session reaches
ScoreInputs == (0 - MaxNegScore)..(MaxWeight * NumQuestions)

\* the result chain on its own: a command whose loop is over, with any score
InitClassify ==
    /\ client = NoClient
    /\ sync = NoSync
    /\ missed = [s \in Sessions |-> FALSE]
    /\ listener = NoListener(0, 0)
    /\ call = NoCall
    /\ env = [invocations |-> 0, interactions |-> 0]
    /\ pc = [s \in Sessions |-> IF s = 1 THEN "classify" ELSE "idle"]
    /\ \E x \in ScoreInputs :
          /\ score = [s \in Sessions |-> IF s = 1 THEN x ELSE 0]
          /\ weights = [s \in Sessions |-> IF s = 1 THEN x ELSE 0]
    /\ owner = [s \in Sessions |-> IF s = 1 THEN 1 ELSE 0]
    /\ i = [s \in Sessions |-> IF s = 1 THEN NumQuestions - 1 ELSE 0]
    /\ accepted = [s \in Sessions |-> IF s = 1 THEN NumQuestions ELSE 0]
    /\ sent = [s \in Sessions |-> IF s = 1 THEN [k \in 1..NumQuestions |-> k - 1] ELSE <<>>]
    /\ deleted = sent
    /\ res = [s \in Sessions |-> NoRes]
    /\ elapsed = [s \in Sessions |-> 0]
    /\ waited = [s \in Sessions |-> 0]
    /\ extra_events = <<>>
    /\ dispatched = 0
    /\ noise = 0
    /\ notices = [s \in Sessions |-> 0]
    /\ results = [s \in Sessions |-> <<>>]
    /\ lastIgnored = [s \in Sessions |-> "none"]

NextClassify == \E s \in Sessions : Classify(s)

SpecClassify == InitClassify /\ [][NextClassify]_vars

Matching(sc) == {k \in 1..6 : branch(k, sc)}

\* the tier table of the questionnaire: Normal 0-10, Mild 11-16, Borderline
\* 17-20, Moderate 21-30, Severe 31-40, Extreme 41 and above
RefTier(sc) ==
    CASE sc \in 0..10 -> "Normal"
      [] sc \in 11..16 -> "Mild"
      [] sc \in 17..20 -> "Borderline"
      [] sc \in 21..30 -> "Moderate"
      [] sc \in 31..40 -> "Severe"
      [] sc >= 41 -> "Extreme"
      [] OTHER -> "invalid"

\* C11: a session is completed only after the 21st response was accepted, and
\* then exactly one result message has been sent; no result message exists while
\* fewer than 21 responses are accepted, and none is ever sent twice.
C11_ResultAfterAllAnswers ==
    \A s \in Sessions :
       /\ pc[s] = "done" => (accepted[s] = NumQuestions /\ Len(results[s]) = 1)
       /\ pc[s] = "classify" => (accepted[s] = NumQuestions /\ results[s] = <<>>)
       /\ results[s] # <<>> => (pc[s] = "done" /\ accepted[s] = NumQuestions)
       /\ accepted[s] < NumQuestions => results[s] = <<>>

\* C11 witness: a completed session with its one result message
C11_Witness ==
    \E s \in Sessions :
       pc[s] = "done" /\ accepted[s] = NumQuestions /\ Len(results[s]) = 1
                      /\ Len(sent[s]) = NumQuestions

\* C12: every score in 0..63 that reaches the chain satisfies exactly one of the
\* six branch conditions (no gap, no overlap), and the chain has then sent the
\* message of exactly one tier.
C12_ExactlyOneTier ==
    \A s \in Sessions :
       (pc[s] \in {"classify", "done"} /\ score[s] \in 0..63) =>
          /\ Cardinality(Matching(score[s])) = 1
          /\ pc[s] = "done" => (Len(results[s]) = 1 /\ results[s][1] \in Tiers)

\* C12 witness: the chain has run on a score at the edge of two ranges
C12_Witness ==
    \E s \in Sessions : pc[s] = "done" /\ score[s] = 10 /\ Matching(score[s]) = {1}

\* C13: the tier sent for a score is the tier of the table, for every score in
\* 0..63, the edges 10, 11, 16, 17, 20, 21, 30, 31, 40, 41 included.
C13_TierMatchesTable ==
    \A s \in Sessions :
       (pc[s] = "done" /\ score[s] \in 0..63) => results[s] = <<RefTier(score[s])>>

\* C13 witness: the chain has run on the edge 41 and sent Extreme
C13_Witness ==
    \E s \in Sessions : pc[s] = "done" /\ score[s] = 41 /\ results[s] = <<"Extreme">>

\* C14: end to end, the result sent after 21 accepted answers is the tier of the
\* sum of the selected weights; a sum of 0 (every answer 0) gives Normal and a
\* sum of 42 (every answer 2, among others) gives Extreme.
C14_EndToEnd ==
    \A s \in Sessions :
       pc[s] = "done" =>
          /\ accepted[s] = NumQuestions
          /\ results[s] = <<RefTier(weights[s])>>
          /\ weights[s] = 0 => results[s] = <<"Normal">>
          /\ weights[s] = 42 => results[s] = <<"Extreme">>

\* C14 witness: 21 answers with the sum 42 and the result Extreme
C14_Witness ==
    \E s \in Sessions :
       pc[s] = "done" /\ accepted[s] = NumQuestions /\ weights[s] = 42
                      /\ results[s] = <<"Extreme">>

(* ---------------- Listener, dispatch.py ---------------- *)

\* a dict as the sequence of its <<key, value>> items in insertion order
DictKeys(d) == {d[j][1] : j \in 1..Len(d)}

\* del d[k]
DictDel(d, k) == SelectSeq(d, LAMBDA it : it[1] # k)

\* d[k] = v: an existing key keeps its place, a new key goes last
DictSet(d, k, v) ==
    IF k \in DictKeys(d)
    THEN [j \in 1..Len(d) |-> IF d[j][1] = k THEN <<k, v>> ELSE d[j]]
    ELSE Append(d, <<k, v>>)

\* coro._converters (bot.py 631): h0 has none, h1 renames key 1 to 2, h2 renames
\* key 2 to 3
Converters(h) ==
    CASE h = "h1" -> [k \in {1} |-> 2]
      [] h = "h2" -> [k \in {2} |-> 3]
      [] OTHER -> [k \in {} |-> 0]

\* dispatch.py 38-42: for every item of the copy whose key has a converter, the
\* key is deleted from kwargs and the value stored under the converted key
RECURSIVE Rename(_, _, _, _)
Rename(copy, j, kwargs, converters) ==
    IF j > Len(copy) THEN kwargs
    ELSE LET key == copy[j][1]
             value == copy[j][2]
         IN IF key \in DOMAIN converters
            THEN Rename(copy, j + 1,
                        DictSet(DictDel(kwargs, key), converters[key], value), converters)
            ELSE Rename(copy, j + 1, kwargs, converters)

\* mutant: a coroutine registered twice under the name gets one task
RECURSIVE CreateTasksOnce(_, _, _)
CreateTasksOnce(events, j, kwargs) ==
    IF j > Len(events) THEN <<>>
    ELSE LET kw == IF DOMAIN Converters(events[j]) # {}
                   THEN Rename(kwargs, 1, kwargs, Converters(events[j]))
                   ELSE kwargs
         IN IF \E k \in 1..(j - 1) : events[k] = events[j]
            THEN CreateTasksOnce(events, j + 1, kw)
            ELSE <<[coro |-> events[j], kwargs |-> kw]>> \o CreateTasksOnce(events, j + 1, kw)

\* dispatch.py 35-45: the loop over the handlers of the name; the renaming
\* changes the kwargs of the dispatch itself, and the task of a handler is
\* created with kwargs as they are at that moment
RECURSIVE CreateTasks(_, _, _)
CreateTasks(events, j, kwargs) ==
    IF j > Len(events) THEN <<>>
    ELSE LET kw == IF DOMAIN Converters(events[j]) # {}
                   THEN Rename(kwargs, 1, kwargs, Converters(events[j]))
                   ELSE kwargs
         IN <<[coro |-> events[j], kwargs |-> kw]>> \o CreateTasks(events, j + 1, kw)

\* mutant: set_result is called on every future of the list
ResolvesAny(ft) == TRUE

\* dispatch.py 55-60: `if fut.done(): log ... else: fut.set_result(args)`
Resolves(ft) == ft.state = "pending"

\* the keyword arguments of the dispatched events: none, one, or two with
\* different names (the values tell them apart)
KwargsInputs ==
    {<<>>} \cup {<< <<k, 1>> >> : k \in Keys}
           \cup {<< <<k[1], 1>>, <<k[2], 2>> >> : k \in {x \in Keys \X Keys : x[1] # x[2]}}

\* the record of an operation other than dispatch: a registration or a step of
\* a wait_for call
Last(op) == [op |-> op, name |-> "none", args |-> 0, kwargs |-> <<>>]

\* Listener.register(coro, name), dispatch.py 64-80
ListenerRegister(h, n) ==
    /\ Len(listener.events["on_a"]) + Len(listener.events["on_b"]) < listener.cap.regs
    /\ listener' = [listener EXCEPT
                      !.events[n] = Append(@, h),
                      !.last = Last("register")]
    /\ UNCHANGED <<client, sync, call, SessionVars>>

\* Listener.add(name), dispatch.py 82-94, called by wait_for (wait_for.py 39):
\* a new pending future is appended to extra_events[name]
ListenerAdd(n) ==
    \E f \in FutIds :
       /\ f <= listener.cap.futs
       /\ listener.fut[f].state = "none"
       /\ \A g \in 1..(f - 1) : listener.fut[g].state # "none"
       /\ listener' = [listener EXCEPT
                         !.fut[f] = [name |-> n, state |-> "pending", result |-> 0, sets |-> 0],
                         !.extra_events[n] = Append(@, f),
                         !.last = Last("wait_for")]
       /\ UNCHANGED <<client, sync, call, SessionVars>>

\* mutant: the dispatch empties the lists of all names
EmptiedAll(extra, n) == [m \in Names |-> <<>>]

\* dispatch.py 62: `self.extra_events[name] = []`
Emptied(extra, n) == [extra EXCEPT ![n] = <<>>]

\* Listener.dispatch(name, a, **kw), dispatch.py 27-62
ListenerDispatch(n, a, kw) ==
    LET futs == listener.extra_events[n]
        hit == {f \in Range(futs) : Resolves(listener.fut[f])}
    IN
    /\ listener' = [listener EXCEPT
                      !.tasks = CreateTasks(listener.events[n], 1, kw),
                      !.fut = [f \in FutIds |->
                                 IF f \in hit
                                 THEN [@[f] EXCEPT !.state = "done", !.result = a,
                                                   !.sets = @ + 1]
                                 ELSE @[f]],
                      !.invalid = @ \/ \E f \in hit : listener.fut[f].state # "pending",
                      !.extra_events = Emptied(@, n),
                      !.last = [op |-> "dispatch", name |-> n, args |-> a, kwargs |-> kw]]
    /\ UNCHANGED <<client, sync, call, SessionVars>>

\* the timeout of asyncio.wait_for(fut, timeout) cancels the future (wait_for.py
\* 41); the waiting coroutine has not run yet, the future is still in the list
FutCancel(f) ==
    /\ listener.fut[f].state = "pending"
    /\ listener' = [listener EXCEPT
                      !.fut[f].state = "cancelled",
                      !.last = Last("wait_for")]
    /\ UNCHANGED <<client, sync, call, SessionVars>>

\* mutant: TimeoutError is raised and the future stays in extra_events
FutRaiseKeep(f) ==
    /\ listener.fut[f].state = "cancelled"
    /\ listener' = [listener EXCEPT
                      !.fut[f].state = "raised",
                      !.last = Last("wait_for")]
    /\ UNCHANGED <<client, sync, call, SessionVars>>

\* wait_for.py 42-45: the coroutine resumes with TimeoutError, removes the future
\* from extra_events[name] (ValueError suppressed) and raises
FutRaise(f) ==
    /\ listener.fut[f].state = "cancelled"
    /\ listener' = [listener EXCEPT
                      !.fut[f].state = "raised",
                      !.extra_events[listener.fut[f].name] = Remove(@, f),
                      !.last = Last("wait_for")]
    /\ UNCHANGED <<client, sync, call, SessionVars>>

\* wait_for.py 47-60: the coroutine resumes with the result of its future and
\* (its check being truthy) returns it
FutReturn(f) ==
    /\ listener.fut[f].state = "done"
    /\ listener' = [listener EXCEPT
                      !.fut[f].state = "returned",
                      !.last = Last("wait_for")]
    /\ UNCHANGED <<client, sync, call, SessionVars>>

InitFutures ==
    /\ sync = NoSync
    /\ client = NoClient
    /\ env = [invocations |-> 0, interactions |-> 0]
    /\ InitSessions
    /\ listener = NoListener(MaxFuts, 0)

\* no handler is registered: the futures of several names and their dispatches
NextFutures ==
    \/ \E n \in Names : ListenerAdd(n)
    \/ \E n \in Names, a \in Args : ListenerDispatch(n, a, <<>>)
    \/ \E f \in FutIds : FutCancel(f)
    \/ \E f \in FutIds : FutRaise(f)
    \/ \E f \in FutIds : FutReturn(f)

\* wait_for calls on several event names against one Listener
SpecFutures == InitFutures /\ [][NextFutures]_vars

\* the step is a dispatch under name n with positional argument a
IsDispatch(n, a) ==
    /\ listener' # listener
    /\ listener'.last.op = "dispatch"
    /\ listener'.last.name = n
    /\ listener'.last.args = a

\* C21: a dispatch under a name resolves every future of that name that is
\* pending, with the arguments of that dispatch, and touches no other future; the
\* result of a future is set by no other step, is set at most once, and
\* set_result is never called on a future that is done or cancelled.
C21_FuturesResolvedOnce ==
    [][/\ \A n \in Names, a \in Args :
             IsDispatch(n, a) =>
                \A f \in FutIds :
                   IF listener.fut[f].state = "pending" /\ listener.fut[f].name = n
                   THEN /\ listener'.fut[f].state = "done"
                        /\ listener'.fut[f].result = a
                   ELSE listener'.fut[f] = listener.fut[f]
       /\ \A f \in FutIds :
             /\ listener'.fut[f].result # listener.fut[f].result
                   => /\ listener'.last.op = "dispatch"
                      /\ listener.fut[f].state = "pending"
             /\ listener'.fut[f].sets <= 1
       /\ ~listener'.invalid]_vars

\* C21 witness: one dispatch resolved two pending futures of its name with its
\* argument and skipped a cancelled one that was still in the list
C21_Witness ==
    /\ listener.last.op = "dispatch"
    /\ \E f, g, h \in FutIds :
          /\ f # g
          /\ listener.fut[f].name = listener.last.name
          /\ listener.fut[g].name = listener.last.name
          /\ listener.fut[h].name = listener.last.name
          /\ listener.fut[f].state = "done" /\ listener.fut[f].result = listener.last.args
          /\ listener.fut[g].state = "done" /\ listener.fut[g].result = listener.last.args
          /\ listener.fut[h].state = "cancelled"
          /\ listener.extra_events[listener.last.name] = <<>>

\* the wait_for calls in progress on a name: their future is pending, or is
\* cancelled or resolved while the coroutine has not resumed yet
InProgressOn(n) ==
    {f \in FutIds : /\ listener.fut[f].name = n
                    /\ listener.fut[f].state \in {"pending", "cancelled", "done"}}

\* C25: the future of a wait_for call that has returned or has raised
\* TimeoutError is in no list of extra_events, and the futures listed under a
\* name are never more than the calls in progress on that name.
C25_NoFutureLeftBehind ==
    \A n \in Names :
       /\ \A f \in Range(listener.extra_events[n]) :
             listener.fut[f].state \notin {"returned", "raised"}
       /\ Len(listener.extra_events[n]) <= Cardinality(InProgressOn(n))

\* C25 witness: one call has raised TimeoutError and one has returned while a
\* third call on the name of the first is still listed
C25_Witness ==
    \E f, g, h \in FutIds :
       /\ listener.fut[f].state = "raised"
       /\ listener.fut[g].state = "returned"
       /\ listener.fut[h].state = "pending"
       /\ listener.fut[h].name = listener.fut[f].name
       /\ listener.extra_events[listener.fut[h].name] = <<h>>

(* ---------------- handlers of the Listener ---------------- *)

InitHandlers ==
    /\ sync = NoSync
    /\ client = NoClient
    /\ env = [invocations |-> 0, interactions |-> 0]
    /\ InitSessions
    /\ listener = NoListener(0, MaxRegs)

\* no future is pending, so that the positional argument reaches nobody and is
\* always 1: registrations and dispatches with keyword arguments
NextHandlers ==
    \/ \E h \in Handlers, n \in Names : ListenerRegister(h, n)
    \/ \E n \in Names : \E kw \in KwargsInputs : ListenerDispatch(n, 1, kw)

SpecHandlers == InitHandlers /\ [][NextHandlers]_vars

\* C27: a dispatch under a name creates one task per registration under that
\* name, in the order of registration, and none for a coroutine registered under
\* another name only; a registration appends one coroutine to the handlers of
\* one name and leaves the earlier registrations as they were.
C27_TasksFollowRegistrations ==
    [][/\ \A n \in Names, a \in Args :
             IsDispatch(n, a) =>
                /\ Len(listener'.tasks) = Len(listener.events[n])
                /\ \A j \in 1..Len(listener.events[n]) :
                      listener'.tasks[j].coro = listener.events[n][j]
       /\ (listener' # listener /\ listener'.last.op = "register") =>
             \E n \in Names :
                /\ Len(listener'.events[n]) = Len(listener.events[n]) + 1
                /\ SubSeq(listener'.events[n], 1, Len(listener.events[n])) = listener.events[n]
                /\ \A m \in Names \ {n} : listener'.events[m] = listener.events[m]]_vars

\* C27 witness: a dispatch created two tasks for a coroutine registered twice
\* under its name and none for another coroutine registered under the other name
C27_Witness ==
    /\ listener.last.op = "dispatch"
    /\ Len(listener.tasks) = 2
    /\ listener.tasks[1].coro = listener.tasks[2].coro
    /\ \E m \in Names \ {listener.last.name} :
          /\ listener.events[m] # <<>>
          /\ listener.events[m][1] # listener.tasks[1].coro

\* C28: in one dispatch every handler gets the keyword arguments that were
\* dispatched, renamed by its own _converters only.
C28_KwargsPerHandler ==
    listener.last.op = "dispatch" =>
       \A j \in 1..Len(listener.tasks) :
          listener.tasks[j].kwargs =
             Rename(listener.last.kwargs, 1, listener.last.kwargs,
                    Converters(listener.tasks[j].coro))

(* ---------------- the frame of a dispatch ---------------- *)

InitFrame ==
    /\ sync = NoSync
    /\ client = NoClient
    /\ env = [invocations |-> 0, interactions |-> 0]
    /\ InitSessions
    /\ listener = NoListener(MaxFrameFuts, MaxFrameRegs)

\* futures on several names and registered handlers, dispatches without
\* keyword arguments
NextFrame ==
    \/ \E h \in Handlers, n \in Names : ListenerRegister(h, n)
    \/ \E n \in Names : ListenerAdd(n)
    \/ \E n \in Names, a \in Args : ListenerDispatch(n, a, <<>>)

SpecFrame == InitFrame /\ [][NextFrame]_vars

\* C26: a dispatch under a name leaves the list of futures of that name empty,
\* and leaves as they were the lists and the futures of every other name and the
\* handlers of every name.
C26_DispatchFrame ==
    [][\A n \in Names, a \in Args :
          IsDispatch(n, a) =>
             /\ listener'.extra_events[n] = <<>>
             /\ \A m \in Names \ {n} :
                   listener'.extra_events[m] = listener.extra_events[m]
             /\ \A f \in FutIds :
                   listener.fut[f].name # n => listener'.fut[f] = listener.fut[f]
             /\ listener'.events = listener.events]_vars

\* C26 witness: a dispatch has resolved the future of its name while a future of
\* the other name is still pending in its list and a handler is registered
C26_Witness ==
    /\ listener.last.op = "dispatch"
    /\ \E f, g \in FutIds :
          /\ listener.fut[f].name = listener.last.name /\ listener.fut[f].state = "done"
          /\ listener.fut[g].name # listener.last.name /\ listener.fut[g].state = "pending"
          /\ listener.extra_events[listener.fut[g].name] = <<g>>
          /\ listener.extra_events[listener.last.name] = <<>>
    /\ \E n \in Names : listener.events[n] # <<>>

(* ---------------- Client._ready, bot.py 439-478 ---------------- *)

ListenerVars == <<listener, call, SessionVars>>

\* what a step of the preparation can do: complete, raise an exception that
\* `except Exception` catches, or raise one it does not catch (CancelledError at
\* an await, KeyboardInterrupt)
Outcomes == {"ok", "Exception", "BaseException"}

\* bot.py 441-462: the check of the intents raises RuntimeError
Unauthorised(c) ==
    IF c.flags # <<>>
    THEN \/ "GUILD_PRESENCES" \in c.intents /\ "GATEWAY_PRESENCE" \notin c.flags[1]
         \/ "GUILD_MEMBERS" \in c.intents /\ "GATEWAY_GUILD_MEMBERS" \notin c.flags[1]
    ELSE c.intents # DefaultIntents

\* the step after a completed step, bot.py 464-472
After(c, step) ==
    CASE step = "intents" -> "resolve"
      [] step = "resolve" -> IF c.automate_sync THEN "sync" ELSE "get_all"
      [] step \in {"sync", "get_all"} -> "autocomplete"
      [] step = "autocomplete" -> "finally"

\* a step of the try block ends: the next step, or the handler of Exception, or
\* the finally block with the exception on its way out
StepEnds(c, step, o) ==
    CASE o = "ok" -> [c EXCEPT !.done = Append(@, step), !.pc = After(c, step),
                               !.ready = (step = "autocomplete")]
      [] o = "Exception" -> [c EXCEPT !.raised = o, !.pending = TRUE, !.pc = "except"]
      [] o = "BaseException" -> [c EXCEPT !.raised = o, !.pending = TRUE, !.pc = "finally"]

\* bot.start calls _ready; the token and the application are set up (bot.py
\* 423-437) and `ready = False`
ReadyStart ==
    /\ client.pc = "idle"
    /\ client' = [client EXCEPT !.pc = "intents"]
    /\ UNCHANGED <<sync, ListenerVars>>

\* bot.py 441-462
ReadyIntents ==
    /\ client.pc = "intents"
    /\ client' = StepEnds(client, "intents",
                          IF Unauthorised(client) THEN "Exception" ELSE "ok")
    /\ UNCHANGED <<sync, ListenerVars>>

\* bot.py 464: self.__resolve_commands()
ReadyResolve(o) ==
    /\ client.pc = "resolve"
    /\ client' = StepEnds(client, "resolve", o)
    /\ UNCHANGED <<sync, ListenerVars>>

\* bot.py 466-467: await self.__sync()
ReadySync(o) ==
    /\ client.pc = "sync"
    /\ client' = StepEnds(client, "sync", o)
    /\ UNCHANGED <<sync, ListenerVars>>

\* bot.py 468-469: await self.__get_all_commands()
ReadyGetAll(o) ==
    /\ client.pc = "get_all"
    /\ client' = StepEnds(client, "get_all", o)
    /\ UNCHANGED <<sync, ListenerVars>>

\* bot.py 470-472: await self.__register_id_autocomplete(), then ready = True
ReadyAutocomplete(o) ==
    /\ client.pc = "autocomplete"
    /\ client' = StepEnds(client, "autocomplete", o)
    /\ UNCHANGED <<sync, ListenerVars>>

\* mutant: the handler logs the exception and raises it again
ReadyExceptReraise ==
    /\ client.pc = "except"
    /\ client' = [client EXCEPT !.logged = TRUE, !.pc = "finally"]
    /\ UNCHANGED <<sync, ListenerVars>>

\* bot.py 473-474: `except Exception: log.exception(...)`
ReadyExcept ==
    /\ client.pc = "except"
    /\ client' = [client EXCEPT !.logged = TRUE, !.pending = FALSE, !.pc = "finally"]
    /\ UNCHANGED <<sync, ListenerVars>>

\* mutant: the finally block logs in whatever `ready` is
ReadyFinallyAlways ==
    /\ client.pc = "finally"
    /\ client' = [client EXCEPT !.logins = @ + 1, !.pc = "login"]
    /\ UNCHANGED <<sync, ListenerVars>>

\* bot.py 475-478: `finally: if ready: await self._login()`; without a login
\* _ready ends here, by returning or with the exception that is on its way out
ReadyFinally ==
    /\ client.pc = "finally"
    /\ client' = IF client.ready
                 THEN [client EXCEPT !.logins = @ + 1, !.pc = "login"]
                 ELSE [client EXCEPT !.pc = IF client.pending THEN "propagated"
                                            ELSE "returned"]
    /\ UNCHANGED <<sync, ListenerVars>>

\* _login returns (bot.py 491-497) and with it _ready
ReadyLoginEnds ==
    /\ client.pc = "login"
    /\ client' = [client EXCEPT !.pc = "returned"]
    /\ UNCHANGED <<sync, ListenerVars>>

\* a Client of any settings is started
InitReady ==
    /\ sync = NoSync
    /\ env = [invocations |-> 0, interactions |-> 0]
    /\ InitSessions
    /\ listener = NoListener(0, 0)
    /\ \E a \in BOOLEAN, n \in SUBSET Intents,
          f \in {<<>>} \cup {<<x>> : x \in SUBSET Flags} :
          client = ClientWith(a, n, f)

NextReady ==
    \/ ReadyStart
    \/ ReadyIntents
    \/ \E o \in Outcomes : ReadyResolve(o)
    \/ \E o \in Outcomes : ReadySync(o)
    \/ \E o \in Outcomes : ReadyGetAll(o)
    \/ \E o \in Outcomes : ReadyAutocomplete(o)
    \/ ReadyExcept
    \/ ReadyFinally
    \/ ReadyLoginEnds

SpecReady == InitReady /\ [][NextReady]_vars

\* the steps of a complete preparation, in their order
Prepared(c) ==
    <<"intents", "resolve", IF c.automate_sync THEN "sync" ELSE "get_all", "autocomplete">>

C29_FailureSwallowed ==
    client.raised # "none" =>
       /\ client.logins = 0
       /\ client.pc # "propagated"
       /\ client.pc = "returned" => client.logged

\* C29 amended: when a step of the preparation raised, _login is never called;
\* an exception that is an Exception is logged and _ready returns normally; an
\* exception that is not (CancelledError, KeyboardInterrupt) leaves _ready and
\* is not logged.
C29_ExceptionSwallowed ==
    /\ client.raised # "none" => client.logins = 0
    /\ client.raised = "Exception" =>
          /\ client.pc \in {"except", "finally", "returned"}
          /\ client.pc = "returned" => client.logged
    /\ client.raised = "BaseException" =>
          /\ client.pc \in {"finally", "propagated"}
          /\ ~client.logged
    /\ client.pc = "propagated" => client.raised = "BaseException"

\* C29 witness: __sync raised an Exception after the commands were resolved,
\* and _ready has logged it and returned without a login
C29_Witness ==
    /\ client.pc = "returned"
    /\ client.raised = "Exception"
    /\ client.done = <<"intents", "resolve">>
    /\ client.automate_sync
    /\ client.logged /\ client.logins = 0

(* ---------------- Client.__sync, bot.py 651-813 ---------------- *)

OtherVars == <<client, ListenerVars>>

GuildSet == Scopes \ {"global"}

NamesOf(cmds) == {cmds[j].name : j \in 1..Len(cmds)}

\* the lists of commands the API can hold in one scope: every name absent,
\* present with other data than the bot has, or present with the same data
ApiLists ==
    LET Pick == [1..Len(CmdNames) -> {"absent", "stale", "fresh"}]
        Cmd(f, k) == IF f[k] = "absent" THEN <<>>
                     ELSE <<[name |-> CmdNames[k], fresh |-> f[k] = "fresh"]>>
        Build[f \in Pick, k \in 0..Len(CmdNames)] ==
            IF k = 0 THEN <<>> ELSE Build[f, k - 1] \o Cmd(f, k)
    IN {Build[f, Len(CmdNames)] : f \in Pick}

\* the guild lists of _command_data: the guilds of a guild-scoped command
GuildLists ==
    LET Pick == [1..Len(Guilds) -> BOOLEAN]
        Build[f \in Pick, k \in 0..Len(Guilds)] ==
            IF k = 0 THEN <<>>
            ELSE Build[f, k - 1] \o (IF f[k] THEN <<Guilds[k]>> ELSE <<>>)
    IN {Build[f, Len(Guilds)] : f \in Pick} \ {<<>>}

\* the registered coroutines: every name unregistered, global, or guild-scoped
\* (__resolve_commands keeps one coroutine per name, bot.py 633-641)
CoroLists ==
    LET Kinds == {<<"none">>, <<"global">>} \cup {<<"guild", gl>> : gl \in GuildLists}
        Pick == [1..Len(CmdNames) -> Kinds]
        Coro(f, k) == CASE f[k][1] = "none" -> <<>>
                        [] f[k][1] = "global" -> <<[name |-> CmdNames[k], guilds |-> <<>>]>>
                        [] OTHER -> <<[name |-> CmdNames[k], guilds |-> f[k][2]]>>
        Build[f \in Pick, k \in 0..Len(CmdNames)] ==
            IF k = 0 THEN <<>> ELSE Build[f, k - 1] \o Coro(f, k)
    IN {Build[f, Len(CmdNames)] : f \in Pick}

\* coro._command_data of the coroutine named n
Data(n) == [name |-> n, fresh |-> TRUE]

\* __compare_sync(data, pool), bot.py 346-400: clean unless the command of that
\* name in the pool differs from data
CompareSync(n, pool) ==
    \A j \in 1..Len(pool) : pool[j].name = n => pool[j].fresh

\* bot.py 728-735 and 752-755: the first command of that name is replaced
ReplaceNamed(cmds, n) ==
    LET hits == {j \in 1..Len(cmds) : cmds[j].name = n} IN
    IF hits = {} THEN cmds
    ELSE LET p == CHOOSE j \in hits : \A k \in hits : j <= k
         IN [cmds EXCEPT ![p] = Data(n)]

\* bot.py 781-784 and 790-793: the first command of that name is deleted
DeleteNamed(cmds, n) ==
    LET hits == {j \in 1..Len(cmds) : cmds[j].name = n} IN
    IF hits = {} THEN cmds
    ELSE LET p == CHOOSE j \in hits : \A k \in hits : j <= k
         IN SubSeq(cmds, 1, p - 1) \o SubSeq(cmds, p + 1, Len(cmds))

\* a registered command in scope x, bot.py 715-740 (guild) and 742-764
\* (global): absent from the names read from the API it is appended; present,
\* it is compared and replaced when it differs, and its name is struck off
Merge(s, n, x) ==
    IF n \notin Range(s.check[x])
    THEN [s EXCEPT !.sets[x] = [commands |-> Append(@.commands, Data(n)), clean |-> FALSE],
                   !.dirty = @ \cup {x}]
    ELSE LET clean == CompareSync(n, s.sets[x].commands) IN
         [s EXCEPT !.sets[x] = IF clean THEN @
                               ELSE [commands |-> ReplaceNamed(@.commands, n),
                                     clean |-> FALSE],
                   !.dirty = IF clean THEN @ ELSE @ \cup {x},
                   !.check[x] = Remove(@, n)]

\* bot.py 707-740: the entries of a guild-scoped coroutine, in their order; a
\* blocked guild raises LibraryException, a guild the bot is not in is skipped
RECURSIVE MergeGuilds(_, _, _, _)
MergeGuilds(s, n, guilds, j) ==
    IF j > Len(guilds) \/ s.raised THEN s
    ELSE IF guilds[j] \in s.blocked THEN [s EXCEPT !.raised = TRUE]
    ELSE IF guilds[j] \notin Range(s.guild_ids) THEN MergeGuilds(s, n, guilds, j + 1)
    ELSE MergeGuilds(Merge(s, n, guilds[j]), n, guilds, j + 1)

\* bot.py 703-764: the loop over the command coroutines
RECURSIVE MergeCoros(_, _)
MergeCoros(s, j) ==
    IF j > Len(s.coros) \/ s.raised THEN s
    ELSE IF s.coros[j].guilds # <<>>
         THEN MergeCoros(MergeGuilds(s, s.coros[j].name, s.coros[j].guilds, 1), j + 1)
         ELSE MergeCoros(Merge(s, s.coros[j].name, "global"), j + 1)

\* bot.py 766-775: with no coroutine at all every set that has commands is
\* emptied
RECURSIVE ClearAll(_, _)
ClearAll(s, xs) ==
    IF xs = <<>> THEN s
    ELSE LET x == Head(xs) IN
         IF s.sets[x].commands # <<>>
         THEN ClearAll([s EXCEPT !.sets[x] = [commands |-> <<>>, clean |-> FALSE],
                                 !.check[x] = <<>>,
                                 !.dirty = @ \cup {x}], Tail(xs))
         ELSE ClearAll(s, Tail(xs))

RECURSIVE DeleteAll(_, _)
DeleteAll(cmds, names) ==
    IF names = <<>> THEN cmds ELSE DeleteAll(DeleteNamed(cmds, Head(names)), Tail(names))

\* mutant: the names left over from the API are kept
RECURSIVE KeepLeftover(_, _)
KeepLeftover(s, xs) ==
    IF xs = <<>> THEN s ELSE KeepLeftover(s, Tail(xs))

\* bot.py 777-793: the names read from the API that no coroutine struck off are
\* deleted from their set
RECURSIVE DeleteLeftover(_, _)
DeleteLeftover(s, xs) ==
    IF xs = <<>> THEN s
    ELSE LET x == Head(xs) IN
         IF s.check[x] # <<>>
         THEN DeleteLeftover([s EXCEPT !.sets[x] = [commands |-> DeleteAll(@.commands, s.check[x]),
                                                    clean |-> FALSE],
                                       !.dirty = @ \cup {x}], Tail(xs))
         ELSE DeleteLeftover(s, Tail(xs))

\* the sets __sync works on: the global one and those of _guild_ids
Held(s) == <<"global">> \o s.guild_ids

\* something calls __sync (bot.py 467)
SyncCall ==
    /\ sync.pc = "idle"
    /\ sync' = [sync EXCEPT !.pc = "fetch"]
    /\ UNCHANGED OtherVars

\* bot.py 661-701: the guilds and the commands are read; a guild that answers
\* 50001 is blocked and leaves _guild_ids
SyncFetch ==
    LET member == SelectSeq(Guilds, LAMBDA g : sync.status[g] # "absent")
        ids == SelectSeq(member, LAMBDA g : sync.status[g] = "ok")
    IN
    /\ sync.pc = "fetch"
    /\ sync' = [sync EXCEPT
                  !.pc = "compare",
                  !.guild_ids = ids,
                  !.blocked = {g \in Range(member) : sync.status[g] = "blocked"},
                  !.sets = [x \in Scopes |->
                              IF x \in {"global"} \cup Range(ids)
                              THEN [commands |-> sync.api[x], clean |-> TRUE]
                              ELSE @[x]],
                  !.check = [x \in Scopes |->
                               IF x \in {"global"} \cup Range(ids)
                               THEN [j \in 1..Len(sync.api[x]) |-> sync.api[x][j].name]
                               ELSE @[x]]]
    /\ UNCHANGED OtherVars

\* bot.py 703-793: the coroutines are merged into the sets, then the sets are
\* emptied (no coroutine) or purged of the leftover names
SyncCompare ==
    LET merged == MergeCoros(sync, 1)
        cleared == IF sync.coros = <<>> THEN ClearAll(merged, Held(merged)) ELSE merged
        purged == DeleteLeftover(cleared, Held(cleared))
    IN
    /\ sync.pc = "compare"
    /\ sync' = IF merged.raised THEN [merged EXCEPT !.pc = "raised"]
               ELSE [purged EXCEPT !.pc = "write"]
    /\ UNCHANGED OtherVars

\* mutant: the set is written and stays marked not clean
WrittenDirty(s, x) ==
    [s EXCEPT !.api[x] = s.sets[x].commands,
              !.writes[x] = @ + 1]

\* bot.py 799-803 and 807-813: overwrite_application_command with the commands
\* of the set; the API answers with the commands it now holds
Written(s, x) ==
    [s EXCEPT !.api[x] = s.sets[x].commands,
              !.writes[x] = @ + 1,
              !.sets[x] = [commands |-> s.sets[x].commands, clean |-> TRUE]]

\* the sets from position k on, in the order global, then _guild_ids, that are
\* not clean
ToWrite(s) == {j \in s.k..Len(Held(s)) : ~s.sets[Held(s)[j]].clean}

\* bot.py 795-813: the sets are gone through once; the next one that is not
\* clean is written with one overwrite call
SyncWrite ==
    /\ sync.pc = "write"
    /\ ToWrite(sync) # {}
    /\ LET p == CHOOSE j \in ToWrite(sync) : \A q \in ToWrite(sync) : j <= q
       IN sync' = [Written(sync, Held(sync)[p]) EXCEPT !.k = p + 1]
    /\ UNCHANGED OtherVars

\* no set is left to write: __sync returns
SyncReturn ==
    /\ sync.pc = "write"
    /\ ToWrite(sync) = {}
    /\ sync' = [sync EXCEPT !.pc = "returned"]
    /\ UNCHANGED OtherVars

\* the registered coroutines, the guilds and the commands of the API are what
\* they happen to be when __sync is called (a guild the bot cannot read has no
\* list to offer)
InitSync ==
    /\ env = [invocations |-> 0, interactions |-> 0]
    /\ InitSessions
    /\ listener = NoListener(0, 0)
    /\ client = NoClient
    /\ \E coros \in CoroLists, status \in [GuildSet -> {"ok", "blocked", "absent"}],
          api \in [Scopes -> ApiLists] :
          /\ \A g \in GuildSet : status[g] # "ok" => api[g] = <<>>
          /\ sync = [NoSync EXCEPT !.coros = coros, !.status = status, !.api = api,
                                   !.was = api]

NextSync ==
    \/ SyncCall
    \/ SyncFetch
    \/ SyncCompare
    \/ SyncWrite
    \/ SyncReturn

SpecSync == InitSync /\ [][NextSync]_vars

\* the names of the coroutines registered for scope x
Wanted(s, x) ==
    {s.coros[j].name : j \in {q \in 1..Len(s.coros) :
                                IF x = "global" THEN s.coros[q].guilds = <<>>
                                ELSE x \in Range(s.coros[q].guilds)}}

\* C23: when __sync has returned, the commands it holds for the global scope and
\* for every guild it could read, and the commands the API holds there, have
\* exactly the names of the coroutines registered for that scope, each once.
C23_SyncedNames ==
    sync.pc = "returned" =>
       \A x \in Range(Held(sync)) :
          /\ NamesOf(sync.sets[x].commands) = Wanted(sync, x)
          /\ NamesOf(sync.api[x]) = Wanted(sync, x)
          /\ Len(sync.sets[x].commands) = Cardinality(Wanted(sync, x))

\* C23 witness: __sync has returned after a global command without coroutine
\* was deleted and another was added, and in a guild the same happened
C23_Witness ==
    /\ sync.pc = "returned"
    /\ NamesOf(sync.was["global"]) = {"a"}
    /\ NamesOf(sync.api["global"]) = {"b"}
    /\ \E g \in Range(sync.guild_ids) :
          /\ NamesOf(sync.was[g]) = {"b"}
          /\ NamesOf(sync.api[g]) = {"a"}

\* C30: when __sync has returned, the set of the global scope and of every guild
\* it could read is clean, and every set that was marked not clean in the run
\* was written by exactly one overwrite call.
C30_CleanAfterSync ==
    sync.pc = "returned" =>
       \A x \in Range(Held(sync)) :
          /\ sync.sets[x].clean
          /\ x \in sync.dirty => sync.writes[x] = 1

\* C30 witness: __sync has returned with the global set and one guild's set
\* written once and the other guild's set clean from the start
C30_Witness ==
    /\ sync.pc = "returned"
    /\ sync.guild_ids = Guilds
    /\ sync.dirty = {"global", "g2"}
    /\ sync.writes = [x \in Scopes |-> IF x = "g1" THEN 0 ELSE 1]
    /\ sync.sets["g1"].commands # <<>>

====
